---- MODULE Spec2Model ----
(***************************************************************************)
(* Model of the food-ordering chatbot's two-stage turn pipeline:           *)
(*   src/chat_engine.py  FoodOrderingWorkflow (classify_and_respond,       *)
(*                       generate_detailed_response, finalize, handlers)   *)
(*   src/app.py          clean_response_text, process_message,             *)
(*                       handle_chat_submission                            *)
(*                                                                         *)
(* A text is a sequence of symbols.  A symbol is one character, or a word  *)
(* of letters standing for that run of letters (every operation modelled   *)
(* here treats a run of letters as it treats one letter).  "^A" stands for *)
(* a control character that is not whitespace (U+0001).                    *)
(***************************************************************************)
EXTENDS Integers, Sequences, FiniteSets, TLC

(***************************************************************************)
(* Bounds of the model.                                                    *)
(***************************************************************************)
MaxTurns == 2
MaxTextLen == 1
MaxQueue == 2
MaxHistory == 23

\* the longest text given to the sanitizer alone, and the calls made on it
MaxCleanLen == 5

MaxCleanings == 2

\* the most brace-delimited objects in a reply given to the cart extractor
MaxObjs == 3

(***************************************************************************)
(* Characters.                                                             *)
(***************************************************************************)
Whitespace == {" ", "\n", "\t"}

AllowedPunct == {".", ",", "!", "?", "$", ":", "(", ")", "-", "+", "*", "/", "\\"}

\* Characters the model uses that are neither letters, digits, whitespace
\* nor allowed punctuation.
OtherChars == {"{", "}", "[", "]", "'", "\"", "#", "^A"}

IsSpace(c) == c \in Whitespace

\* app.py:36  the character class [a-zA-Z0-9\s.,!?$:()\-\+\*\\/\\\\]
IsAllowed(c) == c \notin OtherChars

(***************************************************************************)
(* Sequence helpers (Python str methods).                                  *)
(***************************************************************************)
RECURSIVE LStrip(_)
LStrip(s) ==
    IF s = <<>> THEN <<>>
    ELSE IF IsSpace(Head(s)) THEN LStrip(Tail(s)) ELSE s

RECURSIVE RStrip(_)
RStrip(s) ==
    IF s = <<>> THEN <<>>
    ELSE IF IsSpace(s[Len(s)]) THEN RStrip(SubSeq(s, 1, Len(s) - 1)) ELSE s

\* str.strip()
Strip(s) == RStrip(LStrip(s))

\* ' '.join(text.split()): whitespace runs become one space, none at the ends
RECURSIVE JoinSplit(_)
JoinSplit(s) ==
    LET t == LStrip(s) IN
    IF t = <<>> THEN <<>>
    ELSE LET rest == JoinSplit(Tail(t)) IN
         IF Len(t) > 1 /\ IsSpace(t[2])
         THEN IF rest = <<>> THEN <<Head(t)>> ELSE <<Head(t), " ">> \o rest
         ELSE <<Head(t)>> \o rest

\* app.py:36  re.sub(r'[^...]', '', s)
RemoveDisallowed(s) == SelectSeq(s, IsAllowed)

\* app.py:38  re.sub(r'(?<!\s)(\*\*)', r' \1', s): left to right, matches do
\* not overlap, the lookbehind reads the character before the match in s.
RECURSIVE SpaceBeforeBoldFrom(_, _)
SpaceBeforeBoldFrom(s, i) ==
    IF i > Len(s) THEN <<>>
    ELSE IF /\ i + 1 <= Len(s)
            /\ s[i] = "*"
            /\ s[i + 1] = "*"
            /\ (i = 1 \/ ~IsSpace(s[i - 1]))
         THEN <<" ", "*", "*">> \o SpaceBeforeBoldFrom(s, i + 2)
         ELSE <<s[i]>> \o SpaceBeforeBoldFrom(s, i + 1)

SpaceBeforeBold(s) == SpaceBeforeBoldFrom(s, 1)

\* app.py:39  re.sub(r'(\*\*)(?!\s)', r'\1 ', s)
RECURSIVE SpaceAfterBoldFrom(_, _)
SpaceAfterBoldFrom(s, i) ==
    IF i > Len(s) THEN <<>>
    ELSE IF /\ i + 1 <= Len(s)
            /\ s[i] = "*"
            /\ s[i + 1] = "*"
            /\ (i + 2 > Len(s) \/ ~IsSpace(s[i + 2]))
         THEN <<"*", "*", " ">> \o SpaceAfterBoldFrom(s, i + 2)
         ELSE <<s[i]>> \o SpaceAfterBoldFrom(s, i + 1)

SpaceAfterBold(s) == SpaceAfterBoldFrom(s, 1)

CleanStr_nosplit(s) == Strip(SpaceAfterBold(SpaceBeforeBold(RemoveDisallowed(s))))

\* app.py:28-40  clean_response_text on a str
CleanStr(s) == Strip(SpaceAfterBold(SpaceBeforeBold(RemoveDisallowed(JoinSplit(s)))))


(***************************************************************************)
(* Python values.  A value that may stand where a text is expected is      *)
(*   [t, s, objs]: t = "str" for a string, whose text is s followed by the *)
(*   JSON objects objs embedded in it; t = "none" for None; t = "num" for  *)
(*   a number other than 0 (truthy, no len()); t = "list" for a non-empty  *)
(*   list (truthy, has len()).                                             *)
(* An embedded JSON object o is [src, parses, deep, hasResponse, response, *)
(*   cartKind, cart]: its text is "{" src "}", json.loads accepts it or    *)
(*   not, it nests braces deeper than one level or not, and when it parses *)
(*   it has a "response" key or not and a "cart" that is absent, not a     *)
(*   list, or the list cart.                                               *)
(***************************************************************************)
Str(s) == [t |-> "str", s |-> s, objs |-> <<>>]

NoneVal == [t |-> "none", s |-> <<>>, objs |-> <<>>]

NumVal == [t |-> "num", s |-> <<>>, objs |-> <<>>]

ListVal == [t |-> "list", s |-> <<>>, objs |-> <<>>]

IsStr(v) == v.t = "str"

Render(o) == <<"{">> \o o.src \o <<"}">>

RECURSIVE RenderAll(_)
RenderAll(os) == IF os = <<>> THEN <<>> ELSE Render(Head(os)) \o RenderAll(Tail(os))

\* the characters of a str value
Chars(v) == v.s \o RenderAll(v.objs)

\* Python truthiness: bool(v)
Truthy(v) == IF v.t = "str" THEN Chars(v) # <<>> ELSE v.t # "none"

\* an optional cart: None, or a list of cart lines
NoCart == [present |-> FALSE, items |-> <<>>]

SomeCart(c) == [present |-> TRUE, items |-> c]

(***************************************************************************)
(* Literal texts of the source, abbreviated to their distinguishing words; *)
(* apostrophes and punctuation are kept where the sanitizer acts on them.  *)
(***************************************************************************)
Sorry == <<"I", "'", "m", " ", "sorry", ",", " ">>

\* chat_engine.py:156
BadIntentText == Sorry \o <<"issue", ".">>

\* chat_engine.py:164, 172
GreetingFallbackText == <<"Hello", "!", " ", "help", "?">>

\* chat_engine.py:166, 174
HistoryFallbackText == <<"previous", " ", "conversation", ".">>

\* chat_engine.py:168, 176
IrrelevantFallbackText == Sorry \o <<"only", " ", "assist", ".">>

\* chat_engine.py:182
NotDictText == Sorry \o <<"issue", " ", "processing", ".">>

\* chat_engine.py:199
KeywordGreetingText == <<"Hello", "!", " ", "help", " ", "today", "?">>

\* chat_engine.py:207
KeywordIrrelevantText == Sorry \o <<"trouble", " ", "understanding", ".">>

\* chat_engine.py:220
MenuAckText == <<"Give", " ", "moment", " ", "research", ".">>

\* chat_engine.py:231
OrderModAckText == <<"Give", " ", "moment", " ", "order", " ", "modification", ".">>

\* chat_engine.py:233
OrderAckText == <<"Give", " ", "moment", " ", "order", ".">>

\* chat_engine.py:283
UnexpectedIntentText == Sorry \o <<"not", " ", "sure", ".">>

\* chat_engine.py:300
StepErrorText == Sorry \o <<"error", " ", "cannot", " ", "process", ".">>

\* chat_engine.py:325
MissingMenuQueryText == <<"Error", ":", " ", "Missing", " ", "menu", ".">>

\* chat_engine.py:339
MissingOrderQueryText == <<"Error", ":", " ", "Missing", " ", "order", ".">>

\* chat_engine.py:409  f"...menu information. Error: {str(e)}"
MenuTroubleText(e) == Sorry \o <<"menu", ".", " ", "Error", ":", " ">> \o e

\* chat_engine.py:505
OrderTroubleText(e) == Sorry \o <<"order", ".", " ", "Error", ":", " ">> \o e

\* chat_engine.py:532
GoodbyeTroubleText(e) == Sorry \o <<"goodbye", ".", " ", "Error", ":", " ">> \o e

\* app.py:61
WorkflowErrorText == Sorry \o <<"error", " ", "processing", ".", " ", "try", " ", "again", ".">>

\* app.py:84
NoneResultText == Sorry \o <<"workflow", " ", "returned", " ", "no", " ", "response", ".">>

\* app.py:93
NoStopResultText == <<"No", " ", "response", " ", "StopEvent">>

\* app.py:102  f"Got unexpected result type: {result_type}"
UnexpectedTypeText == <<"Got", " ", "unexpected", " ", "type", ":", " ", "T">>

\* app.py:167, 175
InitialFallbackText == Sorry \o <<"proper", " ", "initial", " ", "response", ".">>

\* app.py:256, 271
DetailsFallbackText == Sorry \o <<"valid", " ", "details", ".">>

\* app.py:262
Stage2ErrorText == <<"Sorry", ",", " ", "error", " ", "getting", " ", "details", ".">>

\* app.py:174, 255, 270  the fragments compared with the stripped text
Fragments == {<<"{">>, <<"}">>, <<"[", "]">>, <<"[">>, <<"]">>, <<"{", "}">>}

\* chat_engine.py:169  the longer list the classifier compares with
RouterFragments ==
    Fragments \cup {<<":">>, <<"\"", "\"">>, <<"'", "'">>, <<",">>, <<".">>}


(***************************************************************************)
(* The intent classifier: chat_engine.py:131-210.                          *)
(* The router model's output is one of                                     *)
(*   [json |-> "invalid", raw]        text json.loads rejects; raw is its  *)
(*                                    words, in order                      *)
(*   [json |-> "nonobject"]           valid JSON that is not an object     *)
(*   [json |-> "object", intent, response]  an object; intent is [t, w]    *)
(*       with t = "absent", "none", "num" or "str" (then w is the string), *)
(*       response is a value (NoneVal also when the key is absent).        *)
(***************************************************************************)
\* str.lower() on the words the model uses
Lower(w) ==
    CASE w \in {"GREETING", "Greeting"} -> "greeting"
      [] w \in {"HISTORY"} -> "history"
      [] w \in {"MENU", "Menu"} -> "menu"
      [] w \in {"ORDER", "Order"} -> "order"
      [] w \in {"END"} -> "end"
      [] w \in {"IRRELEVANT"} -> "irrelevant"
      [] w \in {"Hello"} -> "hello"
      [] w \in {"Thanks"} -> "thanks"
      [] w \in {"Add"} -> "add"
      [] w \in {"Remove"} -> "remove"
      [] OTHER -> w

\* kw in text.lower(), on the words of the text
Contains(text, kw) == \E i \in 1..Len(text) : Lower(text[i]) = kw

ContainsAny(text, kws) == \E kw \in kws : Contains(text, kw)

\* chat_engine.py:149
valid_intents == {"menu", "order", "greeting", "end", "irrelevant", "history"}

FallbackFor_generic(intent) == IrrelevantFallbackText

KeywordFallback_orderfirst(raw) ==
    IF ContainsAny(raw, {"order", "cart", "checkout"})
    THEN [raised |-> FALSE, intent |-> "order", direct_response |-> Str(<<>>)]
    ELSE IF Contains(raw, "menu")
    THEN [raised |-> FALSE, intent |-> "menu", direct_response |-> Str(<<>>)]
    ELSE IF ContainsAny(raw, {"hello", "hi ", " how are"})
    THEN [raised |-> FALSE, intent |-> "greeting",
          direct_response |-> Str(KeywordGreetingText)]
    ELSE IF ContainsAny(raw, {"bye", "thank you", "thanks"})
    THEN [raised |-> FALSE, intent |-> "end", direct_response |-> Str(<<>>)]
    ELSE [raised |-> FALSE, intent |-> "irrelevant",
          direct_response |-> Str(KeywordIrrelevantText)]

\* chat_engine.py:163-168 and 171-176
FallbackFor(intent) ==
    IF intent = "greeting" THEN GreetingFallbackText
    ELSE IF intent = "history" THEN HistoryFallbackText
    ELSE IrrelevantFallbackText

Verdict(raised, intent, direct_response) ==
    [raised |-> raised, intent |-> intent, direct_response |-> direct_response]

\* chat_engine.py:189-208  keyword scan after json.JSONDecodeError
KeywordFallback(raw) ==
    IF Contains(raw, "menu") THEN Verdict(FALSE, "menu", Str(<<>>))
    ELSE IF ContainsAny(raw, {"order", "cart", "checkout"})
    THEN Verdict(FALSE, "order", Str(<<>>))
    ELSE IF ContainsAny(raw, {"hello", "hi ", " how are"})
    THEN Verdict(FALSE, "greeting", Str(KeywordGreetingText))
    ELSE IF ContainsAny(raw, {"bye", "thank you", "thanks"})
    THEN Verdict(FALSE, "end", Str(<<>>))
    ELSE Verdict(FALSE, "irrelevant", Str(KeywordIrrelevantText))

\* chat_engine.py:144-178  the object branch
ParseObject(out) ==
    IF out.intent.t = "num"
    THEN \* .lower() on a non-string: AttributeError leaves the step
         Verdict(TRUE, "", Str(<<>>))
    ELSE
    LET intent0 == IF out.intent.t = "str" /\ out.intent.w # ""
                   THEN Lower(out.intent.w) ELSE ""
        resp0 == IF Truthy(out.response) THEN out.response ELSE Str(<<>>)
        bad == intent0 = "" \/ intent0 \notin valid_intents
        intent == IF bad THEN "irrelevant" ELSE intent0
        resp1 == IF bad /\ ~Truthy(resp0) THEN Str(BadIntentText) ELSE resp0
        resp2 == IF intent \in {"greeting", "irrelevant", "history"}
                 THEN IF ~IsStr(resp1) \/ Strip(Chars(resp1)) = <<>>
                      THEN Str(FallbackFor(intent))
                      ELSE IF Strip(Chars(resp1)) \in RouterFragments
                           THEN Str(FallbackFor(intent))
                           ELSE resp1
                 ELSE resp1
    IN  \* chat_engine.py:178  len(direct_response) in the log line
        IF resp2.t = "num" THEN Verdict(TRUE, "", Str(<<>>))
        ELSE Verdict(FALSE, intent, resp2)

\* chat_engine.py:139-208
ClassifyParse(out) ==
    IF out.json = "invalid" THEN KeywordFallback(out.raw)
    ELSE IF out.json = "nonobject" THEN Verdict(FALSE, "irrelevant", Str(NotDictText))
    ELSE ParseObject(out)

(***************************************************************************)
(* Events of the workflow.                                                 *)
(***************************************************************************)
\* chat_engine.py:17-22
ResponseEvent(response, action_type, original_query, cart_items) ==
    [response |-> response, action_type |-> action_type,
     original_query |-> original_query, cart_items |-> cart_items]

\* chat_engine.py:24-28
ChatResponseStopEvent(response, action_type, cart_items) ==
    [response |-> response, action_type |-> action_type, cart_items |-> cart_items]

\* chat_engine.py:230
IsModification(query) ==
    ContainsAny(query, {"change", "modify", "add", "remove", "update"})

ActionTypeOf_final(intent) ==
    CASE intent = "menu" -> "menu_inquiry"
      [] intent = "order" -> "order_action"
      [] intent = "greeting" -> "greeting"
      [] intent = "end" -> "end_conversation"
      [] intent = "history" -> "history_query"
      [] intent = "irrelevant" -> "irrelevant_query"
      [] OTHER -> "error"

\* chat_engine.py:218-290  the first-stage action type of a classified intent
ActionTypeOf(intent) ==
    CASE intent = "menu" -> "menu_inquiry_pending"
      [] intent = "order" -> "order_action_pending"
      [] intent = "greeting" -> "greeting"
      [] intent = "end" -> "end_conversation"
      [] intent = "history" -> "history_query"
      [] intent = "irrelevant" -> "irrelevant_query"
      [] OTHER -> "error"

\* chat_engine.py:218-239  the acknowledgment of a pending intent
AckText(intent, query) ==
    IF intent = "menu" THEN MenuAckText
    ELSE IF IsModification(query) THEN OrderModAckText ELSE OrderAckText


(***************************************************************************)
(* Model calls.  The outcome of a call is [raised, msg, content]: the call *)
(* raised an exception whose str() is msg, or returned a message whose     *)
(* content is the value content.                                           *)
(***************************************************************************)
Raised(msg) == [raised |-> TRUE, msg |-> msg, content |-> NoneVal]

Returned(content) == [raised |-> FALSE, msg |-> <<>>, content |-> content]

\* chat_engine.py:399-409
HandleMenuQuery(o) ==
    IF o.raised THEN Str(MenuTroubleText(o.msg)) ELSE o.content

\* chat_engine.py:522-532
HandleEndConversation(o) ==
    IF o.raised THEN Str(GoodbyeTroubleText(o.msg)) ELSE o.content

\* chat_engine.py:477  re.findall of the brace pattern: the objects that
\* nest braces at most one level deep, in order of appearance
IsCandidate(o) == ~o.deep

JsonMatches(content) == SelectSeq(content.objs, IsCandidate)

\* chat_engine.py:481-493  index of the first match that json.loads accepts
\* and that has a "response" key; 0 when there is none
RECURSIVE FirstAcceptedFrom(_, _)
FirstAcceptedFrom(matches, i) ==
    IF i > Len(matches) THEN 0
    ELSE IF matches[i].parses /\ matches[i].hasResponse THEN i
    ELSE FirstAcceptedFrom(matches, i + 1)

FirstAccepted(matches) == FirstAcceptedFrom(matches, 1)

ExtractCart_last(content) ==
    IF ~IsStr(content) THEN [content |-> content, cart_items |-> <<>>]
    ELSE LET matches == JsonMatches(content)
             ok == {i \in 1..Len(matches) :
                      matches[i].parses /\ matches[i].hasResponse}
             k == IF ok = {} THEN 0
                  ELSE CHOOSE i \in ok : \A j \in ok : j <= i
         IN  IF k = 0 THEN [content |-> content, cart_items |-> <<>>]
             ELSE [content |-> matches[k].response,
                   cart_items |-> IF matches[k].cartKind = "list"
                                  THEN matches[k].cart ELSE <<>>]

\* chat_engine.py:467-502  the cart extractor: (response_content, cart_items)
ExtractCart(content) ==
    IF ~IsStr(content) THEN [content |-> content, cart_items |-> <<>>]
    ELSE LET matches == JsonMatches(content)
             k == FirstAccepted(matches)
         IN  IF k = 0 THEN [content |-> content, cart_items |-> <<>>]
             ELSE [content |-> matches[k].response,
                   cart_items |-> IF matches[k].cartKind = "list"
                                  THEN matches[k].cart ELSE <<>>]

\* chat_engine.py:488-489  the accepted object has a "cart" that is a list
FoundCartArray(content) ==
    /\ IsStr(content)
    /\ FirstAccepted(JsonMatches(content)) # 0
    /\ JsonMatches(content)[FirstAccepted(JsonMatches(content))].cartKind = "list"

\* chat_engine.py:459-505
HandleOrderQuery(o) ==
    IF o.raised
    THEN [content |-> Str(OrderTroubleText(o.msg)), cart_items |-> <<>>]
    ELSE ExtractCart(o.content)

(***************************************************************************)
(* app.py:42-116  process_message: the record made of a run's result.      *)
(* The run ends "raised" (a step raised, or the timeout fired) or returns  *)
(* a result of one of the shapes the function tells apart.                 *)
(***************************************************************************)
ErrorRecord(text) == ChatResponseStopEvent(Str(text), "error", NoCart)

RecordOfRaise_kind ==
    ChatResponseStopEvent(Str(WorkflowErrorText), "menu_inquiry_pending", NoCart)

\* app.py:56-64
RecordOfRaise == ErrorRecord(WorkflowErrorText)

RecordOfResult_empty(shape, stop) ==
    CASE shape = "chat" -> stop
      [] shape = "none" -> ErrorRecord(NoneResultText)
      [] shape = "plain_text" ->
            ChatResponseStopEvent(Str(<<"a">>), "unknown", NoCart)
      [] shape = "plain_empty" ->
            ChatResponseStopEvent(Str(<<>>), "unknown", NoCart)
      [] OTHER -> ErrorRecord(UnexpectedTypeText)

\* app.py:75-105
RecordOfResult(shape, stop) ==
    CASE shape = "chat" -> stop
      [] shape = "none" -> ErrorRecord(NoneResultText)
      [] shape = "plain_text" ->
            ChatResponseStopEvent(Str(<<"a">>), "unknown", NoCart)
      [] shape = "plain_empty" ->
            ChatResponseStopEvent(Str(NoStopResultText), "unknown", NoCart)
      [] OTHER -> ErrorRecord(UnexpectedTypeText)

(***************************************************************************)
(* app.py:153-201  stage one of handle_chat_submission: validation and     *)
(* cleaning of the record's text.                                          *)
(***************************************************************************)
Shown(content, action_type) == [content |-> content, action_type |-> action_type]

Stage1Shown_keepkind(rec) ==
    IF ~IsStr(rec.response) \/ Strip(Chars(rec.response)) = <<>>
    THEN Shown(InitialFallbackText, "error")
    ELSE LET cleaned == CleanStr(Chars(rec.response)) IN
         IF cleaned = <<>> \/ Strip(cleaned) \in Fragments
         THEN Shown(InitialFallbackText, rec.action_type)
         ELSE Shown(cleaned, rec.action_type)

\* app.py:166-177
Stage1Shown(rec) ==
    IF ~IsStr(rec.response) \/ Strip(Chars(rec.response)) = <<>>
    THEN Shown(InitialFallbackText, "error")
    ELSE LET cleaned == CleanStr(Chars(rec.response)) IN
         IF cleaned = <<>> \/ Strip(cleaned) \in Fragments
         THEN Shown(InitialFallbackText, "error")
         ELSE Shown(cleaned, rec.action_type)

CartAfter_merge(cart, cart_items) ==
    IF cart_items.present THEN cart \o cart_items.items ELSE cart

\* app.py:195-196, 238-239  the session cart after a record's cart_items
CartAfter(cart, cart_items) ==
    IF cart_items.present THEN cart_items.items ELSE cart

(***************************************************************************)
(* app.py:228-273  stage two of handle_chat_submission.                    *)
(***************************************************************************)
IsPending_menuonly(action_type) == action_type = "menu_inquiry_pending"

\* app.py:216
IsPending(action_type) ==
    action_type \in {"menu_inquiry_pending", "order_action_pending"}

HandlerOf_swapped(action_type) ==
    IF action_type = "menu_inquiry_pending" THEN "order" ELSE "menu"

\* app.py:231, 234  the handler stage two calls for a pending action type
HandlerOf(action_type) ==
    IF action_type = "menu_inquiry_pending" THEN "menu" ELSE "order"

Stage2Handler_menucart(action_type, o) ==
    IF HandlerOf(action_type) = "menu"
    THEN [content |-> HandleMenuQuery(o), cart_items |-> SomeCart(<<>>),
          final |-> "menu_inquiry"]
    ELSE [content |-> HandleOrderQuery(o).content,
          cart_items |-> SomeCart(HandleOrderQuery(o).cart_items),
          final |-> "order_action"]

\* app.py:231-236  the handler's result as (content, cart_items or None)
Stage2Handler(action_type, o) ==
    IF HandlerOf(action_type) = "menu"
    THEN [content |-> HandleMenuQuery(o), cart_items |-> NoCart,
          final |-> "menu_inquiry"]
    ELSE LET r == HandleOrderQuery(o) IN
         [content |-> r.content, cart_items |-> SomeCart(r.cart_items),
          final |-> "order_action"]

\* app.py:246-253  a text that is one JSON object with a "response" key is
\* replaced by that response
UnwrapJson(c) ==
    IF /\ IsStr(c)
       /\ Strip(c.s) = <<>>
       /\ Len(c.objs) = 1
       /\ c.objs[1].parses
       /\ c.objs[1].hasResponse
    THEN c.objs[1].response
    ELSE c

\* app.py:245-263  validation inside the try block; a value that is truthy
\* and has no strip() raises AttributeError, caught at app.py:260
Stage2Validate(c0, final) ==
    LET c == UnwrapJson(c0) IN
    IF ~Truthy(c) THEN [content |-> Str(DetailsFallbackText), final |-> "error"]
    ELSE IF ~IsStr(c) THEN [content |-> Str(Stage2ErrorText), final |-> "error"]
    ELSE IF Strip(Chars(c)) \in Fragments
    THEN [content |-> Str(DetailsFallbackText), final |-> "error"]
    ELSE [content |-> c, final |-> final]

\* app.py:265-273
Stage2Clean(v) ==
    LET cleaned == CleanStr(Chars(v.content)) IN
    IF cleaned = <<>> \/ Strip(cleaned) \in Fragments
    THEN Shown(DetailsFallbackText, "error")
    ELSE Shown(cleaned, v.final)

\* app.py:228-273
Stage2Shown(action_type, o) ==
    LET h == Stage2Handler(action_type, o) IN
    Stage2Clean(Stage2Validate(h.content, h.final))


(***************************************************************************)
(* Inputs: what the user types and what the language model answers.        *)
(***************************************************************************)
Sigma == {"a", "\n", "{"}

RECURSIVE SeqsUpTo(_, _)
SeqsUpTo(S, n) ==
    IF n = 0 THEN {<<>>}
    ELSE LET shorter == SeqsUpTo(S, n - 1) IN
         shorter \cup {Append(t, c) : t \in shorter, c \in S}

Texts == SeqsUpTo(Sigma, MaxTextLen)

\* str(e) of the exceptions a model call raises
ExcMsgs == {<<"timeout">>, <<"key", "\n", "{", "sk", "}">>}

Queries == {<<"pizza">>, <<"Remove", " ", "fries">>}

Carts == {<<>>, <<"burger">>, <<"fries">>}

Obj(src, parses, deep, hasResponse, response, cartKind, cart) ==
    [src |-> src, parses |-> parses, deep |-> deep, hasResponse |-> hasResponse,
     response |-> response, cartKind |-> cartKind, cart |-> cart]

Embedding(pre, o) == [t |-> "str", s |-> pre, objs |-> <<o>>]

\* replies that embed a JSON object: the whole reply is the object, or prose
\* precedes it
JsonContents ==
    {Embedding(<<>>, Obj(<<"r", "c">>, TRUE, FALSE, TRUE, Str(<<"Added", ".">>), "list", c)) :
        c \in Carts}
    \cup
    {Embedding(<<"Sure", "!", " ">>,
               Obj(<<"r", "c">>, TRUE, FALSE, TRUE, Str(<<"Added", "\n", "^A", "it">>), "list", <<"burger">>)),
     \* no "cart" key
     Embedding(<<>>, Obj(<<"r">>, TRUE, FALSE, TRUE, Str(<<"ok">>), "absent", <<>>)),
     \* a "cart" that is not a list
     Embedding(<<>>, Obj(<<"r", "c", "x">>, TRUE, FALSE, TRUE, Str(<<"ok">>), "nonlist", <<>>)),
     \* no "response" key
     Embedding(<<"Sure", " ">>, Obj(<<"c">>, TRUE, FALSE, FALSE, NoneVal, "list", <<"burger">>)),
     \* malformed JSON
     Embedding(<<>>, Obj(<<"r", ":">>, FALSE, FALSE, FALSE, NoneVal, "absent", <<>>)),
     \* the empty object {}
     Embedding(<<>>, Obj(<<>>, TRUE, FALSE, FALSE, NoneVal, "absent", <<>>)),
     \* a "response" that is a number
     Embedding(<<>>, Obj(<<"r", "5">>, TRUE, FALSE, TRUE, NumVal, "list", <<"burger">>)),
     \* a "response" that is the empty string
     Embedding(<<>>, Obj(<<"r", "e">>, TRUE, FALSE, TRUE, Str(<<>>), "list", <<"burger">>)),
     \* braces nested deeper than one level
     Embedding(<<>>, Obj(<<"r", "{", "{", "}", "}">>, TRUE, TRUE, TRUE, Str(<<"deep">>), "list", <<"fries">>))}

\* contents of a model reply: plain texts, None, and texts embedding JSON
Contents == {Str(t) : t \in Texts} \cup {NoneVal} \cup JsonContents

CallOutcomes == {Raised(m) : m \in ExcMsgs} \cup {Returned(c) : c \in Contents}

\* outcomes of a handler call that generate_detailed_response awaits inside
\* the run: one of each kind
StepCallOutcomes ==
    {Raised(<<"timeout">>), Returned(NoneVal), Returned(Str(<<"a">>)),
     Returned(Embedding(<<>>, Obj(<<"r", "c">>, TRUE, FALSE, TRUE,
                                  Str(<<"Added", ".">>), "list", <<"burger">>)))}

IntentField(t, w) == [t |-> t, w |-> w]

IntentFields ==
    {IntentField("absent", ""), IntentField("none", ""), IntentField("num", "")}
    \cup {IntentField("str", w) :
            w \in {"", "GREETING", "history", "Menu", "ORDER", "end",
                   "IRRELEVANT", "bogus"}}

\* the intents answered by a handler: their "response" is only measured
HandlerIntentFields ==
    {IntentField("str", w) : w \in {"Menu", "ORDER", "end"}}

RawWords == {"Menu", "cart", "Hello", "Thanks", "x"}

\* raw outputs with keywords of two kinds
MixedRaws == {<<"cart", "Menu">>, <<"Hello", "cart">>, <<"Thanks", "Hello">>}

RouterOutputs ==
    {[json |-> "invalid", raw |-> r, intent |-> IntentField("absent", ""),
      response |-> NoneVal] :
        r \in (SeqsUpTo(RawWords, MaxTextLen) \ {<<>>}) \cup MixedRaws}
    \cup
    {[json |-> "nonobject", raw |-> <<>>, intent |-> IntentField("absent", ""),
      response |-> NoneVal]}
    \cup
    {[json |-> "object", raw |-> <<>>, intent |-> i, response |-> r] :
        i \in IntentFields \ HandlerIntentFields,
        r \in {NoneVal, NumVal, ListVal, Str(<<".">>)}
              \cup {Str(t) : t \in Texts}}
    \cup
    {[json |-> "object", raw |-> <<>>, intent |-> i, response |-> r] :
        i \in HandlerIntentFields,
        r \in {NoneVal, NumVal, ListVal, Str(<<"a">>)}}

\* shapes of the value workflow.run returns (app.py:75-105)
RunShapes == {"chat", "none", "plain_text", "plain_empty", "other"}


(***************************************************************************)
(* State.                                                                  *)
(*  Session (st.session_state): messages, current_cart.                    *)
(*  One utterance (locals of handle_chat_submission and the workflow       *)
(*  instance it creates): pc is where the utterance stands                 *)
(*    "idle"      no utterance in progress                                 *)
(*    "router"    workflow.run is running, the classification call is out  *)
(*    "farewell"  workflow.run is running, the farewell call is out        *)
(*    "steps"     workflow.run is running, events are being delivered      *)
(*    "returned"  process_message has returned response_event             *)
(*    "stage2"    the stage-two handler call is out                        *)
(*    "done"      handle_chat_submission has finished                      *)
(*  History of the utterance, read by the properties only: intent, runEnd, *)
(*  calls, failed, excMsg, cartBefore, handled, handlerArg, cart_found,    *)
(*  caught.                                                                *)
(***************************************************************************)
VARIABLES
    messages,          \* st.session_state.messages
    current_cart,      \* st.session_state.current_cart
    turn,              \* number of utterances submitted so far
    pc,
    query,             \* the prompt of the utterance
    chat_history,      \* FoodOrderingWorkflow.chat_history
    detailQ,           \* events waiting for generate_detailed_response
    finalizeQ,         \* events waiting for finalize
    detailBusy,        \* the handler call generate_detailed_response awaits
    stop,              \* the stop event that ends the run
    response_event,    \* what process_message returned
    stage1,            \* initial_message_content, action_type
    stage2,            \* detailed_response_content, final_action_type
    stage2_cart_items, \* the cart the stage-two handler returned
    intent,            \* the classified intent, "" when there is none
    runEnd,            \* how workflow.run ended
    calls,             \* the model calls started for the utterance, in order
    failed,            \* the model calls of the utterance that raised
    excMsg,            \* str(e) of the exception a model call raised
    cartBefore,        \* the session cart when the utterance was submitted
    handled,           \* the text the stage-two handler returned
    handlerArg,        \* the query the stage-two handler was called with
    handler_messages,  \* the messages the last handler call sent to the model
    cart_found,        \* the stage-two order reply yielded a cart array
    caught,            \* the classify step's except block ran
    router_out,        \* the classifier's model output, while the run lasts
    clean_in,          \* a value given to clean_response_text
    clean_out,         \* what clean_response_text last returned
    clean_n,           \* how many times it has been applied
    extract_in,        \* a reply content given to the cart extractor
    extract_out        \* what the cart extractor returned for it

vars == <<messages, current_cart, turn, pc, query, chat_history, detailQ,
          finalizeQ, detailBusy, stop, response_event, stage1, stage2,
          stage2_cart_items, intent, runEnd, calls, failed, excMsg,
          cartBefore, handled, handlerArg, handler_messages, cart_found,
          caught, router_out, clean_in, clean_out, clean_n, extract_in,
          extract_out>>

\* the variables of the sanitizer on its own
cleanVars == <<clean_in, clean_out, clean_n>>

\* the variables of the cart extractor on its own
extractVars == <<extract_in, extract_out>>

\* chat_engine.py:467-469  before the extractor has returned
NoExtract == [done |-> FALSE, result |-> [content |-> NoneVal, cart_items |-> <<>>]]

sessionVars == <<messages, current_cart, turn>>

NoStop == ChatResponseStopEvent(NoneVal, "none", NoCart)

NoShown == Shown(<<>>, "none")

Message_user(role, content) == [role |-> "user", content |-> content]

\* app.py:121, 187, 284  one turn of the session history
Message(role, content) == [role |-> role, content |-> content]

\* chat_engine.py:548  chat_history[-20:]
HistoryCap == 20

LastN_first(s, n) == IF Len(s) <= n THEN s ELSE SubSeq(s, 1, n)

\* chat_engine.py:548  s[-n:]
LastN(s, n) == IF Len(s) <= n THEN s ELSE SubSeq(s, Len(s) - n + 1, Len(s))

\* chat_engine.py:545-552  create_chat_engine's snapshot of the history
FormatHistory(history) ==
    LET recent == LastN(history, HistoryCap) IN
    [i \in 1..Len(recent) |->
        Message(IF recent[i].role = "user" THEN "USER" ELSE "ASSISTANT",
                recent[i].content)]

HandlerPrompt_session(history, q) ==
    history \o <<[role |-> "USER", content |-> q],
                 [role |-> "ASSISTANT", content |-> <<"ack">>],
                 [role |-> "SYSTEM", content |-> <<"template">>]>>

\* chat_engine.py:392-395, 452-455, 515-518  the prompt a handler sends:
\* messages = self.chat_history + [user query, system template]
HandlerPrompt(history, q) ==
    history \o <<Message("USER", q), Message("SYSTEM", <<"template">>)>>

HistoryAfterPrompt_extend(history, q) == HandlerPrompt(history, q)

\* chat_engine.py:392, 452, 515  self.chat_history once the prompt is built:
\* list + list makes a new list and leaves both operands as they were
HistoryAfterPrompt(history, q) == history

\* no classifier output yet
NoOutput ==
    [json |-> "none", raw |-> <<>>, intent |-> IntentField("absent", ""),
     response |-> NoneVal]

\* app.py:309 initialize_session_state(): a fresh session, before any utterance
SessionInit ==
    /\ router_out = NoOutput
    /\ messages = <<>>
    /\ current_cart = <<>>
    /\ turn = 0
    /\ pc = "idle"
    /\ query = <<>>
    /\ chat_history = <<>>
    /\ detailQ = <<>>
    /\ finalizeQ = <<>>
    /\ detailBusy = "none"
    /\ stop = NoStop
    /\ response_event = NoStop
    /\ stage1 = NoShown
    /\ stage2 = NoShown
    /\ stage2_cart_items = NoCart
    /\ intent = ""
    /\ runEnd = "none"
    /\ calls = <<>>
    /\ failed = {}
    /\ excMsg = <<>>
    /\ cartBefore = <<>>
    /\ handled = NoneVal
    /\ handlerArg = <<>>
    /\ handler_messages = <<>>
    /\ cart_found = FALSE
    /\ caught = FALSE

Init ==
    /\ SessionInit
    /\ clean_in = Str(<<>>)
    /\ clean_out = <<>>
    /\ clean_n = 0
    /\ extract_in = NoneVal
    /\ extract_out = NoExtract

Submit_retry(q) ==
    /\ pc = "idle"
    /\ turn < MaxTurns
    /\ messages' = Append(messages, Message("user", q))
    /\ chat_history' = FormatHistory(messages)
    /\ turn' = turn + 1
    /\ query' = q
    /\ pc' = "router"
    /\ calls' = <<"router", "router">>
    /\ cartBefore' = current_cart
    /\ UNCHANGED <<current_cart, detailQ, finalizeQ, detailBusy, stop,
                   response_event, stage1, stage2, stage2_cart_items, intent,
                   runEnd, failed, excMsg, handled, 
                   handlerArg, handler_messages, cart_found, caught, router_out, cleanVars, extractVars>>

\* app.py:118-142, chat_engine.py:51-128: the user message is appended, the
\* workflow is created on the history without it, and the run starts: the
\* classify step sends the classification request.
Submit(q) ==
    /\ pc = "idle"
    /\ turn < MaxTurns
    /\ messages' = Append(messages, Message("user", q))
    /\ chat_history' = FormatHistory(messages)
    /\ turn' = turn + 1
    /\ query' = q
    /\ pc' = "router"
    /\ calls' = <<"router">>
    /\ cartBefore' = current_cart
    /\ UNCHANGED <<current_cart, detailQ, finalizeQ, detailBusy, stop,
                   response_event, stage1, stage2, stage2_cart_items, intent,
                   runEnd, failed, excMsg, handled, 
                   handlerArg, handler_messages, cart_found, caught, router_out, cleanVars, extractVars>>

\* app.py:56-64  workflow.run raised: the run is over, its tasks cancelled
RunRaises(how) ==
    /\ response_event' = RecordOfRaise
    /\ runEnd' = how
    /\ pc' = "returned"
    /\ detailQ' = <<>>
    /\ finalizeQ' = <<>>
    /\ detailBusy' = "none"
    /\ stop' = NoStop

\* chat_engine.py:128  the classification call raises: nothing in the step
\* catches it
RouterRaises(m) ==
    /\ pc = "router"
    /\ RunRaises("raised")
    /\ failed' = failed \cup {"router"}
    /\ excMsg' = m
    /\ UNCHANGED <<sessionVars, query, chat_history, stage1, stage2,
                   stage2_cart_items, intent, calls, cartBefore, handled, 
                   handlerArg, handler_messages, cart_found, caught, router_out, cleanVars, extractVars>>

\* chat_engine.py:139-178  an exception other than JSONDecodeError while the
\* output is parsed leaves the step
RouterParseRaises(out) ==
    /\ router_out' = out
    /\ pc = "router"
    /\ ClassifyParse(out).raised
    /\ RunRaises("raised")
    /\ UNCHANGED <<sessionVars, query, chat_history, stage1, stage2,
                   stage2_cart_items, intent, calls, failed, excMsg,
                   cartBefore, handled, 
                   handlerArg, handler_messages, cart_found, caught, cleanVars, extractVars>>

\* chat_engine.py:218-239  menu or order: the step returns a ResponseEvent,
\* delivered to every step that accepts one
RouterPending(out) ==
    LET v == ClassifyParse(out)
        ev == ResponseEvent(Str(AckText(v.intent, query)), ActionTypeOf(v.intent),
                            Str(query), NoCart)
    IN  /\ router_out' = out
        /\ pc = "router"
        /\ ~v.raised
        /\ v.intent \in {"menu", "order"}
        /\ intent' = v.intent
        /\ detailQ' = <<ev>>
        /\ finalizeQ' = <<ev>>
        /\ pc' = "steps"
        /\ UNCHANGED <<sessionVars, query, chat_history, detailBusy, stop,
                       response_event, stage1, stage2, stage2_cart_items,
                       runEnd, calls, failed, excMsg, cartBefore, handled, 
                   handlerArg, handler_messages, cart_found, caught, cleanVars, extractVars>>

\* chat_engine.py:240-249, 261-280  greeting, history or irrelevant: the step
\* returns the stop event itself
RouterDirect(out) ==
    LET v == ClassifyParse(out) IN
        /\ router_out' = out
        /\ pc = "router"
        /\ ~v.raised
        /\ v.intent \in {"greeting", "history", "irrelevant"}
        /\ intent' = v.intent
        /\ stop' = ChatResponseStopEvent(v.direct_response, ActionTypeOf(v.intent), NoCart)
        /\ pc' = "steps"
        /\ UNCHANGED <<sessionVars, query, chat_history, detailQ, finalizeQ,
                       detailBusy, response_event, stage1, stage2,
                       stage2_cart_items, runEnd, calls, failed, excMsg,
                       cartBefore, handled, 
                   handlerArg, handler_messages, cart_found, caught, cleanVars, extractVars>>

\* chat_engine.py:250-253  end: the step calls the farewell handler inline
RouterEnd(out) ==
    LET v == ClassifyParse(out) IN
        /\ router_out' = out
        /\ pc = "router"
        /\ ~v.raised
        /\ v.intent = "end"
        /\ intent' = v.intent
        /\ calls' = Append(calls, "farewell")
        /\ pc' = "farewell"
        /\ handler_messages' = HandlerPrompt(chat_history, query)
        /\ chat_history' = HistoryAfterPrompt(chat_history, query)
        /\ UNCHANGED <<sessionVars, query, detailQ, finalizeQ,
                       detailBusy, stop, response_event, stage1, stage2,
                       stage2_cart_items, runEnd, failed, excMsg, cartBefore,
                       handled, 
                   handlerArg, cart_found, caught, cleanVars, extractVars>>

\* chat_engine.py:253-260, 295-302  the farewell handler returns; a response
\* that is not a str fails the stop event's validation, which the step's
\* except block turns into the error stop event
FarewellStop_kind(response) ==
    IF IsStr(response)
    THEN ChatResponseStopEvent(response, "irrelevant_query", NoCart)
    ELSE ChatResponseStopEvent(Str(StepErrorText), "error", NoCart)

FarewellStop(response) ==
    IF IsStr(response)
    THEN ChatResponseStopEvent(response, "end_conversation", NoCart)
    ELSE ChatResponseStopEvent(Str(StepErrorText), "error", NoCart)

FarewellReturns(o) ==
    /\ pc = "farewell"
    /\ stop' = FarewellStop(HandleEndConversation(o))
    /\ caught' = ~IsStr(HandleEndConversation(o))
    /\ failed' = IF o.raised THEN failed \cup {"farewell"} ELSE failed
    /\ excMsg' = IF o.raised THEN o.msg ELSE excMsg
    /\ pc' = "steps"
    /\ UNCHANGED <<sessionVars, query, chat_history, detailQ, finalizeQ,
                   detailBusy, response_event, stage1, stage2,
                   stage2_cart_items, intent, runEnd, calls, cartBefore,
                   handled, 
                   handlerArg, handler_messages, cart_found, router_out, cleanVars, extractVars>>


(***************************************************************************)
(* The steps after classification.  A ResponseEvent is delivered to both   *)
(* steps that accept one, generate_detailed_response and finalize; each     *)
(* step takes its events in order of arrival.  The run ends with the first *)
(* stop event a step returns.                                              *)
(***************************************************************************)
\* the name, in calls and failed, of a handler call made inside the run
InRun(handler) == IF handler = "menu" THEN "run_menu" ELSE "run_order"

\* chat_engine.py:313-316, 327-330  a pending event with its query: the step
\* awaits the matching handler's model call
DetailCalls ==
    /\ pc = "steps"
    /\ detailBusy = "none"
    /\ detailQ # <<>>
    /\ IsPending(Head(detailQ).action_type)
    /\ Truthy(Head(detailQ).original_query)
    /\ detailBusy' = HandlerOf(Head(detailQ).action_type)
    /\ calls' = Append(calls, InRun(HandlerOf(Head(detailQ).action_type)))
    /\ detailQ' = Tail(detailQ)
    /\ handler_messages' =
          HandlerPrompt(chat_history, Chars(Head(detailQ).original_query))
    /\ chat_history' = HistoryAfterPrompt(chat_history, Chars(Head(detailQ).original_query))
    /\ UNCHANGED <<sessionVars, pc, query, finalizeQ, stop,
                   response_event, stage1, stage2, stage2_cart_items, intent,
                   runEnd, failed, excMsg, cartBefore, handled, 
                   handlerArg, cart_found, caught, router_out, cleanVars, extractVars>>

\* chat_engine.py:316-322, 330-336  the event the step returns when the
\* handler has answered
DetailEvent(handler, o) ==
    IF handler = "menu"
    THEN ResponseEvent(HandleMenuQuery(o), "menu_inquiry", NoneVal, NoCart)
    ELSE LET r == HandleOrderQuery(o) IN
         ResponseEvent(r.content, "order_action", NoneVal, SomeCart(r.cart_items))

DetailPassEvent_kept(ev) ==
    [response |-> ev.response, action_type |-> ev.action_type,
     original_query |-> ev.original_query, cart_items |-> NoCart]

\* chat_engine.py:323-325, 337-350  the event the step returns without a
\* model call: a pending event without its query, or an event that is not
\* pending
DetailPassEvent(ev) ==
    IF ev.action_type = "menu_inquiry_pending"
    THEN ResponseEvent(Str(MissingMenuQueryText), "error", NoneVal, NoCart)
    ELSE IF ev.action_type = "order_action_pending"
    THEN ResponseEvent(Str(MissingOrderQueryText), "error", NoneVal, NoCart)
    ELSE ResponseEvent(ev.response, ev.action_type, ev.original_query, NoCart)

\* a ResponseEvent whose response is not a str fails validation: the step
\* raises and no event is delivered
Deliverable(ev) == IsStr(ev.response)

DetailReturns(o) ==
    LET ev == DetailEvent(detailBusy, o) IN
    /\ pc = "steps"
    /\ detailBusy # "none"
    /\ Len(finalizeQ) < MaxQueue
    /\ Deliverable(ev)
    /\ detailBusy' = "none"
    /\ detailQ' = Append(detailQ, ev)
    /\ finalizeQ' = Append(finalizeQ, ev)
    /\ failed' = IF o.raised THEN failed \cup {InRun(detailBusy)} ELSE failed
    /\ excMsg' = IF o.raised THEN o.msg ELSE excMsg
    /\ UNCHANGED <<sessionVars, pc, query, chat_history, stop, response_event,
                   stage1, stage2, stage2_cart_items, intent, runEnd, calls,
                   cartBefore, handled, 
                   handlerArg, handler_messages, cart_found, caught, router_out, cleanVars, extractVars>>

\* chat_engine.py:318, 332  the handler's answer is not a str: building the
\* ResponseEvent raises inside the step, and the run with it
DetailRaises(o) ==
    /\ pc = "steps"
    /\ detailBusy # "none"
    /\ ~Deliverable(DetailEvent(detailBusy, o))
    /\ RunRaises("raised")
    /\ UNCHANGED <<sessionVars, query, chat_history, stage1, stage2,
                   stage2_cart_items, intent, calls, failed, excMsg,
                   cartBefore, handled, 
                   handlerArg, handler_messages, cart_found, caught, router_out, cleanVars, extractVars>>

\* chat_engine.py:341-350  an event that is not pending is passed on as a
\* new ResponseEvent
DetailPasses ==
    /\ pc = "steps"
    /\ detailBusy = "none"
    /\ detailQ # <<>>
    /\ ~(IsPending(Head(detailQ).action_type) /\ Truthy(Head(detailQ).original_query))
    /\ Len(finalizeQ) < MaxQueue
    /\ detailQ' = Append(Tail(detailQ), DetailPassEvent(Head(detailQ)))
    /\ finalizeQ' = Append(finalizeQ, DetailPassEvent(Head(detailQ)))
    /\ UNCHANGED <<sessionVars, pc, query, chat_history, detailBusy, stop,
                   response_event, stage1, stage2, stage2_cart_items, intent,
                   runEnd, calls, failed, excMsg, cartBefore, handled, 
                   handlerArg, handler_messages, cart_found, caught, router_out, cleanVars, extractVars>>

FinalizeEvent_passes(ev) == NoStop

\* chat_engine.py:353-368
FinalizeEvent(ev) == ChatResponseStopEvent(ev.response, ev.action_type, ev.cart_items)

Finalize ==
    /\ pc = "steps"
    /\ finalizeQ # <<>>
    /\ stop = NoStop
    /\ stop' = FinalizeEvent(Head(finalizeQ))
    /\ finalizeQ' = Tail(finalizeQ)
    /\ UNCHANGED <<sessionVars, pc, query, chat_history, detailQ, detailBusy,
                   response_event, stage1, stage2, stage2_cart_items, intent,
                   runEnd, calls, failed, excMsg, cartBefore, handled, 
                   handlerArg, handler_messages, cart_found, caught, router_out, cleanVars, extractVars>>

\* app.py:55, 66-105  workflow.run returns: the run is over, its tasks are
\* cancelled, process_message makes the record of what it got
RunReturns(shape) ==
    /\ pc = "steps"
    /\ stop # NoStop
    /\ response_event' = RecordOfResult(shape, stop)
    /\ runEnd' = shape
    /\ pc' = "returned"
    /\ detailQ' = <<>>
    /\ finalizeQ' = <<>>
    /\ detailBusy' = "none"
    /\ stop' = NoStop
    /\ UNCHANGED <<sessionVars, query, chat_history, stage1, stage2,
                   stage2_cart_items, intent, calls, failed, excMsg,
                   cartBefore, handled, 
                   handlerArg, handler_messages, cart_found, caught, router_out, cleanVars, extractVars>>

\* chat_engine.py:43, 558  the run's timeout fires: workflow.run raises
Timeout ==
    /\ pc \in {"router", "farewell", "steps"}
    /\ RunRaises("timeout")
    /\ UNCHANGED <<sessionVars, query, chat_history, stage1, stage2,
                   stage2_cart_items, intent, calls, failed, excMsg,
                   cartBefore, handled, 
                   handlerArg, handler_messages, cart_found, caught, router_out, cleanVars, extractVars>>

(***************************************************************************)
(* handle_chat_submission after process_message.                           *)
(***************************************************************************)
\* app.py:153-236  stage one: the record's text is validated and cleaned,
\* shown and appended to the history, its cart (when it has one) replaces
\* the session cart; a pending action type starts the stage-two handler
HandleStage1 ==
    LET sh == Stage1Shown(response_event) IN
    /\ pc = "returned"
    /\ router_out' = NoOutput
    /\ stage1' = sh
    /\ messages' = Append(messages, Message("assistant", sh.content))
    /\ current_cart' = CartAfter(current_cart, response_event.cart_items)
    /\ IF IsPending(sh.action_type)
       THEN /\ pc' = "stage2"
            /\ calls' = Append(calls, HandlerOf(sh.action_type))
            /\ handlerArg' = query
            /\ handler_messages' = HandlerPrompt(chat_history, query)
            /\ chat_history' = HistoryAfterPrompt(chat_history, query)
       ELSE /\ pc' = "done"
            /\ calls' = calls
            /\ handlerArg' = handlerArg
            /\ handler_messages' = handler_messages
            /\ chat_history' = chat_history
    /\ UNCHANGED <<turn, query, detailQ, finalizeQ, detailBusy,
                   stop, response_event, stage2, stage2_cart_items, intent,
                   runEnd, failed, excMsg, cartBefore, handled, 
                   cart_found, caught, cleanVars, extractVars>>

\* app.py:228-289  stage two: the handler answers, its cart replaces the
\* session cart, its text is validated, cleaned, shown and appended
Stage2Returns(o) ==
    LET h == Stage2Handler(stage1.action_type, o)
        sh == Stage2Shown(stage1.action_type, o)
    IN  /\ pc = "stage2"
        /\ stage2' = sh
        /\ stage2_cart_items' = h.cart_items
        /\ current_cart' = CartAfter(current_cart, h.cart_items)
        /\ messages' = Append(messages, Message("assistant", sh.content))
        /\ handled' = h.content
        /\ cart_found' = (stage1.action_type = "order_action_pending"
                          /\ ~o.raised /\ FoundCartArray(o.content))
        /\ failed' = IF o.raised THEN failed \cup {HandlerOf(stage1.action_type)}
                     ELSE failed
        /\ excMsg' = IF o.raised THEN o.msg ELSE excMsg
        /\ pc' = "done"
        /\ UNCHANGED <<turn, query, chat_history, detailQ, finalizeQ,
                       detailBusy, stop, response_event, stage1, intent,
                       runEnd, calls, cartBefore, 
                       handlerArg, handler_messages, caught, router_out, cleanVars, extractVars>>

\* app.py:332-336  handle_chat_submission returns and the script reruns:
\* only the session state is kept
Rerun ==
    /\ pc = "done"
    /\ pc' = "idle"
    /\ query' = <<>>
    /\ chat_history' = <<>>
    /\ response_event' = NoStop
    /\ stage1' = NoShown
    /\ stage2' = NoShown
    /\ stage2_cart_items' = NoCart
    /\ intent' = ""
    /\ runEnd' = "none"
    /\ calls' = <<>>
    /\ failed' = {}
    /\ excMsg' = <<>>
    /\ cartBefore' = <<>>
    /\ handled' = NoneVal
    /\ handlerArg' = <<>>
    /\ handler_messages' = <<>>
    /\ cart_found' = FALSE
    /\ router_out' = NoOutput
    /\ caught' = FALSE
    /\ UNCHANGED <<sessionVars, detailQ, finalizeQ, detailBusy, stop, cleanVars, extractVars>>

Next ==
    \/ \E q \in Queries : Submit(q)
    \/ \E m \in ExcMsgs : RouterRaises(m)
    \/ \E out \in RouterOutputs : RouterParseRaises(out)
    \/ \E out \in RouterOutputs : RouterPending(out)
    \/ \E out \in RouterOutputs : RouterDirect(out)
    \/ \E out \in RouterOutputs : RouterEnd(out)
    \/ \E o \in CallOutcomes : FarewellReturns(o)
    \/ DetailCalls
    \/ \E o \in StepCallOutcomes : DetailReturns(o)
    \/ \E o \in StepCallOutcomes : DetailRaises(o)
    \/ DetailPasses
    \/ Finalize
    \/ \E shape \in RunShapes : RunReturns(shape)
    \/ Timeout
    \/ HandleStage1
    \/ \E o \in CallOutcomes : Stage2Returns(o)
    \/ Rerun

Spec == Init /\ [][Next]_vars

(***************************************************************************)
(* The same program with its scheduling: a model call returns or raises    *)
(* within its request timeout (chat_engine.py:123, 521), and the event     *)
(* loop runs a step whose event is queued and returns a finished run to    *)
(* its caller.  Nothing is assumed of the detail step or of the timeout.   *)
(***************************************************************************)
RouterAnswers ==
    \/ \E m \in ExcMsgs : RouterRaises(m)
    \/ \E out \in RouterOutputs :
          \/ RouterParseRaises(out)
          \/ RouterPending(out)
          \/ RouterDirect(out)
          \/ RouterEnd(out)

FarewellAnswers == \E o \in CallOutcomes : FarewellReturns(o)

RunAnswers == \E shape \in RunShapes : RunReturns(shape)

LiveSpec ==
    /\ Spec
    /\ WF_vars(RouterAnswers)
    /\ WF_vars(FarewellAnswers)
    /\ WF_vars(Finalize)
    /\ WF_vars(RunAnswers)


(***************************************************************************)
(* A long session, for the history snapshot alone: every utterance appends *)
(* its message, creates the workflow on the history without it, and then   *)
(* appends one or two assistant messages.  A message's content is its      *)
(* position in the session.                                                *)
(***************************************************************************)
\* the variables that belong to the handling of one utterance
utteranceVars ==
    <<current_cart, turn, query, detailQ, finalizeQ, detailBusy, stop,
      response_event, stage1, stage2, stage2_cart_items, intent, runEnd,
      calls, failed, excMsg, cartBefore, handled, handlerArg, handler_messages, cart_found,
      caught, router_out>>

\* app.py:137  st.session_state.messages[:-1]
AllButLast(s) == SubSeq(s, 1, Len(s) - 1)

Numbered(role, n) == Message(role, <<ToString(n)>>)

\* app.py:121, 133-137
LongSubmit ==
    /\ pc = "idle"
    /\ Len(messages) < MaxHistory
    /\ messages' = Append(messages, Numbered("user", Len(messages) + 1))
    /\ chat_history' = FormatHistory(AllButLast(messages'))
    /\ pc' = "replying"
    /\ UNCHANGED <<utteranceVars, cleanVars, extractVars>>

\* app.py:187, 284  one assistant message, or two after a pending record
LongReply(k) ==
    /\ pc = "replying"
    /\ messages' =
          IF k = 1
          THEN Append(messages, Numbered("assistant", Len(messages) + 1))
          ELSE messages \o <<Numbered("assistant", Len(messages) + 1),
                             Numbered("assistant", Len(messages) + 2)>>
    /\ pc' = "idle"
    /\ UNCHANGED <<chat_history, utteranceVars, cleanVars, extractVars>>

HistoryNext ==
    \/ LongSubmit
    \/ \E k \in {1, 2} : LongReply(k)

HistorySpec == Init /\ [][HistoryNext]_vars


(***************************************************************************)
(* The sanitizer alone: clean_response_text is applied to a value and then *)
(* to its own result.  The value is a text over letters, the two kinds of  *)
(* whitespace, a character outside the allow-list and the bold marker's    *)
(* asterisk, or it is not a str.                                           *)
(***************************************************************************)
CleanSigma == {"a", " ", "\n", "#", "*"}

\* app.py:30-31  str(text) of a value that is not a str: None, a number (5
\* stands for it) or a list ([5] stands for it)
PyStr(v) ==
    CASE v.t = "none" -> <<"N", "o", "n", "e">>
      [] v.t = "num" -> <<"5">>
      [] v.t = "list" -> <<"[", "5", "]">>
      [] OTHER -> Chars(v)

\* app.py:28-40  clean_response_text on any value
clean_response_text(text) ==
    IF ~IsStr(text) THEN PyStr(text) ELSE CleanStr(Chars(text))

CleanInputs ==
    {Str(s) : s \in SeqsUpTo(CleanSigma, MaxCleanLen)}
        \cup {NoneVal, NumVal, ListVal}

\* every variable but those of the sanitizer
otherVars ==
    <<messages, chat_history, pc, utteranceVars>>

CleanInit ==
    /\ SessionInit
    /\ clean_in \in CleanInputs
    /\ clean_out = <<>>
    /\ clean_n = 0
    /\ extract_in = NoneVal
    /\ extract_out = NoExtract

\* app.py:28-40: one call, on the input first and on the last result after
Sanitize ==
    /\ clean_n < MaxCleanings
    /\ clean_out' =
          clean_response_text(IF clean_n = 0 THEN clean_in ELSE Str(clean_out))
    /\ clean_n' = clean_n + 1
    /\ UNCHANGED <<clean_in, otherVars, extractVars>>

CleanNext == Sanitize

CleanSpec == CleanInit /\ [][CleanNext]_vars


(***************************************************************************)
(* The cart extractor alone: it is applied to a reply content that is not  *)
(* a str, or that embeds up to MaxObjs brace-delimited objects.            *)
(***************************************************************************)
ExtractObjs ==
    {Obj(<<"r", "c">>, TRUE, FALSE, TRUE, Str(<<"Added", ".">>), "list", <<"burger">>),
     Obj(<<"r", "c", "2">>, TRUE, FALSE, TRUE, Str(<<"Removed", ".">>), "list", <<>>),
     Obj(<<"r">>, TRUE, FALSE, TRUE, Str(<<"ok">>), "absent", <<>>),
     Obj(<<"r", "c", "x">>, TRUE, FALSE, TRUE, NoneVal, "nonlist", <<>>),
     Obj(<<"c">>, TRUE, FALSE, FALSE, NoneVal, "list", <<"fries">>),
     Obj(<<"r", ":">>, FALSE, FALSE, FALSE, NoneVal, "absent", <<>>),
     Obj(<<"r", "{", "{", "}", "}">>, TRUE, TRUE, TRUE, Str(<<"deep">>), "list", <<"fries">>)}

ExtractInputs ==
    {[t |-> "str", s |-> pre, objs |-> os] :
        pre \in {<<>>, <<"Sure", " ">>}, os \in SeqsUpTo(ExtractObjs, MaxObjs)}
        \cup {NoneVal, ListVal}

ExtractInit ==
    /\ SessionInit
    /\ clean_in = Str(<<>>)
    /\ clean_out = <<>>
    /\ clean_n = 0
    /\ extract_in \in ExtractInputs
    /\ extract_out = NoExtract

\* chat_engine.py:467-502: one call of the extractor
Extract ==
    /\ ~extract_out.done
    /\ extract_out' = [done |-> TRUE, result |-> ExtractCart(extract_in)]
    /\ UNCHANGED <<extract_in, otherVars, cleanVars>>

ExtractNext == Extract

ExtractSpec == ExtractInit /\ [][ExtractNext]_vars


(***************************************************************************)
(* The detail step alone: one ResponseEvent of any action type, with or    *)
(* without its original query, is delivered to generate_detailed_response, *)
(* and the events the step returns are delivered to it again.              *)
(***************************************************************************)
DetailInputs ==
    {ResponseEvent(Str(r), a, q, NoCart) :
        r \in {<<>>, <<"a">>},
        a \in {"menu_inquiry_pending", "order_action_pending", "greeting",
               "menu_inquiry", "order_action", "history_query", "error"},
        q \in {NoneVal, Str(<<>>), Str(<<"pizza">>), Str(<<"Remove", " ", "fries">>)}}

\* chat_engine.py:304-305  the step accepts every ResponseEvent
Deliver(ev) ==
    /\ pc = "idle"
    /\ calls = <<>>
    /\ pc' = "steps"
    /\ calls' = <<"router">>
    /\ detailQ' = <<ev>>
    /\ UNCHANGED <<sessionVars, query, chat_history, finalizeQ, detailBusy,
                   stop, response_event, stage1, stage2, stage2_cart_items,
                   intent, runEnd, failed, excMsg, cartBefore, handled,
                   handlerArg, handler_messages, cart_found, caught, router_out, cleanVars,
                   extractVars>>

DetailNext ==
    \/ \E ev \in DetailInputs : Deliver(ev)
    \/ DetailCalls
    \/ \E o \in StepCallOutcomes : DetailReturns(o)
    \/ \E o \in StepCallOutcomes : DetailRaises(o)
    \/ DetailPasses

DetailSpec == Init /\ [][DetailNext]_vars

(***************************************************************************)
(* Properties.                                                             *)
(***************************************************************************)
SeqToSet(s) == {s[i] : i \in 1..Len(s)}

\* the action type stage two records when nothing goes wrong
FinalOf(action_type) ==
    IF action_type = "menu_inquiry_pending" THEN "menu_inquiry" ELSE "order_action"

\* a value is a string whose sanitized form is neither empty nor a fragment
TextOk(v) ==
    /\ IsStr(v)
    /\ CleanStr(Chars(v)) # <<>>
    /\ CleanStr(Chars(v)) \notin Fragments

Last(s) == s[Len(s)]

\* what C2 says of a finished stage two, text being the value its
\* "whenever" condition is read on
C2_Stage2(text) ==
    (pc = "done" /\ stage2 # NoShown) =>
        /\ stage1.action_type = "menu_inquiry_pending" =>
              Last(calls) = "menu" /\ ~stage2_cart_items.present
        /\ stage1.action_type = "order_action_pending" =>
              Last(calls) = "order" /\ stage2_cart_items.present
        /\ handlerArg = query
        /\ TextOk(text) => stage2.action_type = FinalOf(stage1.action_type)

\* C2 as stated: stage two after a pending record calls the matching handler
\* with the original utterance, and records menu_inquiry (order_action)
\* whenever the handler returned non-empty, non-degenerate text.
C2_HandlerTextDecides == C2_Stage2(handled)

\* C2 amended: ... whenever the text stage two validates (the handler's text,
\* or the "response" of it when that text is one JSON object with a
\* "response" key) is a string that is non-empty and non-degenerate after
\* sanitization.
C2_ValidatedTextDecides == C2_Stage2(UnwrapJson(handled))

C2_Witness ==
    /\ pc = "done"
    /\ stage1.action_type = "order_action_pending"
    /\ handlerArg = <<"Remove", " ", "fries">>
    /\ stage2.action_type = "order_action"
    /\ stage2_cart_items = SomeCart(<<"burger">>)

\* C3 as stated: whatever the outcome of the run, process_message returns a
\* record with a non-empty response string and an action kind.
C3_NonEmptyRecord ==
    pc = "returned" =>
        /\ IsStr(response_event.response)
        /\ Chars(response_event.response) # <<>>
        /\ response_event.action_type # "none"

\* C3 amended: whatever the outcome of the run, process_message returns a
\* record with a response string and an action kind; the string is non-empty
\* unless the run stopped normally on the farewell of an end intent, whose
\* text is whatever the farewell model call returned.
C3_WellFormedRecord ==
    pc = "returned" =>
        /\ IsStr(response_event.response)
        /\ response_event.action_type # "none"
        /\ Chars(response_event.response) = <<>> =>
              /\ runEnd = "chat"
              /\ intent = "end"
              /\ response_event.action_type = "end_conversation"

C3_Witness ==
    /\ pc = "returned"
    /\ runEnd = "plain_empty"
    /\ response_event.response = Str(NoStopResultText)
    /\ response_event.action_type = "unknown"

\* C4: a model call that raises ends in a record of action kind error for
\* the stage of that call: stage one for the classifier and the farewell
\* handler, stage two for the menu and order handlers.
C4_FailureIsError ==
    /\ (pc \in {"stage2", "done"} /\ failed \cap {"router", "farewell"} # {}) =>
          stage1.action_type = "error"
    /\ (pc = "done" /\ failed \cap {"menu", "order"} # {}) =>
          stage2.action_type = "error"

\* the message of the exception the displayed texts are compared against
RefExc == <<"timeout">>

\* C5: the text displayed after a model call raised is the text displayed
\* when the same call raises with another exception message.
C5_TextIndependentOfException ==
    /\ (pc \in {"stage2", "done"} /\ "router" \in failed) =>
          stage1.content = Stage1Shown(RecordOfRaise).content
    /\ (pc \in {"stage2", "done"} /\ "farewell" \in failed /\ runEnd = "chat") =>
          stage1.content =
             Stage1Shown(FarewellStop(HandleEndConversation(Raised(RefExc)))).content
    /\ (pc = "done" /\ failed \cap {"menu", "order"} # {}) =>
          stage2.content = Stage2Shown(stage1.action_type, Raised(RefExc)).content

\* C6: when the classification call raises, the utterance gets exactly one
\* record, of action kind error with the apology text; the only model call
\* of the turn is the classifier's, and stage two is not run.
C6_RouterFailure ==
    "router" \in failed =>
        /\ calls = <<"router">>
        /\ pc \in {"returned", "done"}
        /\ response_event.action_type = "error"
        /\ response_event.response = Str(WorkflowErrorText)
        /\ stage2 = NoShown
        /\ pc = "done" =>
              /\ stage1 = Shown(CleanStr(WorkflowErrorText), "error")
              /\ messages[Len(messages)] = Message("assistant", stage1.content)
              /\ messages[Len(messages) - 1] = Message("user", query)

C6_Witness ==
    /\ pc = "done"
    /\ "router" \in failed
    /\ stage1.action_type = "error"

\* C7: the session cart changes only through a cart present in a record:
\* during the run it is the cart before the turn; after stage one it is the
\* record's cart when there is one and the prior cart otherwise; after stage
\* two it is the second record's cart when there is one (replaced, not
\* merged) and the cart after stage one otherwise.
C7_CartOnlyFromRecord ==
    LET afterOne == IF response_event.cart_items.present
                    THEN response_event.cart_items.items ELSE cartBefore
    IN  /\ pc \in {"router", "farewell", "steps", "returned"} =>
              current_cart = cartBefore
        /\ pc = "stage2" => current_cart = afterOne
        /\ pc = "done" =>
              current_cart = IF stage2_cart_items.present
                             THEN stage2_cart_items.items ELSE afterOne

C7_Witness ==
    /\ pc = "done"
    /\ cartBefore = <<"burger">>
    /\ stage2_cart_items = SomeCart(<<"fries">>)
    /\ current_cart = <<"fries">>

\* C8: when the order handler's model output yields no cart array, the
\* stage-two record carries no cart and the session cart after the turn is
\* the session cart before the turn.
C8_NoCartArrayLeavesCart ==
    (/\ pc = "done"
     /\ stage1.action_type = "order_action_pending"
     /\ "order" \notin failed
     /\ ~cart_found) =>
        /\ ~stage2_cart_items.present
        /\ current_cart = cartBefore

ControlChars == {"\n", "\t", "^A"}

\* C9: every assistant text in the session history is non-empty, is not one
\* of the fragments, and contains no newline, tab or other control character.
C9_DisplayedTextClean ==
    \A i \in 1..Len(messages) :
        messages[i].role = "assistant" =>
            /\ messages[i].content # <<>>
            /\ messages[i].content \notin Fragments
            /\ SeqToSet(messages[i].content) \cap ControlChars = {}

\* a handler's apology that embeds an exception message with a newline and
\* braces is displayed without them
C9_Witness ==
    /\ pc = "done"
    /\ "order" \in failed
    /\ excMsg = <<"key", "\n", "{", "sk", "}">>
    /\ stage2.content = CleanStr(OrderTroubleText(excMsg))
    /\ SeqToSet(stage2.content) \cap {"\n", "{", "}"} = {}

\* the sanitized form of a response value; a value that is not a string has
\* none
Sanitized(v) == IF IsStr(v) THEN CleanStr(Chars(v)) ELSE <<>>

Degenerate(t) == t = <<>> \/ t \in Fragments

\* C10: in stage one the displayed text is the sanitized text of the record;
\* when that is empty or a fragment the apology is displayed, the kind is
\* error and stage two is not run.  In stage two the displayed text is the
\* sanitized text of the validated handler text, or an apology with kind
\* error when that is empty or a fragment.
C10_SanitizedOrError ==
    /\ pc \in {"stage2", "done"} =>
          IF Degenerate(Sanitized(response_event.response))
          THEN /\ stage1 = Shown(InitialFallbackText, "error")
               /\ pc = "done"
               /\ stage2 = NoShown
               /\ SeqToSet(calls) \cap {"menu", "order"} = {}
          ELSE stage1 = Shown(Sanitized(response_event.response),
                              response_event.action_type)
    /\ (pc = "done" /\ stage2 # NoShown) =>
          IF Degenerate(Sanitized(UnwrapJson(handled)))
          THEN /\ stage2.action_type = "error"
               /\ stage2.content \in {DetailsFallbackText,
                                       CleanStr(DetailsFallbackText),
                                       CleanStr(Stage2ErrorText)}
          ELSE stage2.content = Sanitized(UnwrapJson(handled))

\* a farewell text that is one brace: sanitized to nothing, replaced in
\* stage one
C10_Witness ==
    /\ pc = "done"
    /\ response_event.response = Str(<<"{">>)
    /\ response_event.action_type = "end_conversation"
    /\ stage1 = Shown(InitialFallbackText, "error")

\* the messages of the session before the utterance was submitted; the
\* snapshot holds all of them while they are no more than the cap
Appended == Len(messages) - Len(chat_history)

\* C11: a finished utterance has appended its own message and one or two
\* assistant records; the second record is there exactly when the record of
\* stage one has kind menu_inquiry_pending or order_action_pending, and never
\* after greeting, history_query, end_conversation, irrelevant_query or error.
C11_OneOrTwoRecords ==
    (pc = "done" /\ Len(messages) <= HistoryCap) =>
        /\ (stage2 # NoShown) <=>
              response_event.action_type \in
                 {"menu_inquiry_pending", "order_action_pending"}
        /\ (stage2 # NoShown) <=>
              stage1.action_type \in
                 {"menu_inquiry_pending", "order_action_pending"}
        /\ stage1 # NoShown
        /\ IF stage2 # NoShown
           THEN /\ Appended = 3
                /\ messages[Len(messages)] = Message("assistant", stage2.content)
                /\ messages[Len(messages) - 1] = Message("assistant", stage1.content)
                /\ messages[Len(messages) - 2] = Message("user", query)
           ELSE /\ Appended = 2
                /\ messages[Len(messages)] = Message("assistant", stage1.content)
                /\ messages[Len(messages) - 1] = Message("user", query)

C11_Witness ==
    /\ pc = "done"
    /\ turn = 2
    /\ stage1.action_type = "order_action_pending"
    /\ stage2.action_type = "order_action"
    /\ Appended = 3

\* C12: until the record of stage one has been returned to the caller and
\* handled by it, no model call of the menu handler or of the order handler
\* has been started for the utterance, neither by the workflow run nor by
\* the caller.
C12_NoHandlerCallBeforeStageTwo ==
    pc \in {"router", "farewell", "steps", "returned"} =>
        SeqToSet(calls) \cap {"run_menu", "run_order", "menu", "order"} = {}

\* the exception of a model call that got no answer within the client's
\* request timeout
NoAnswer == <<"timeout">>

\* C13: an utterance whose model call got no answer ends, and ends with a
\* record of kind error for the stage of that call: once the utterance is
\* finished, stage one is error when the classifier's or the farewell
\* handler's call got no answer, and stage two is error when the menu or
\* order handler's call got no answer.
C13_NoAnswerEndsInError ==
    (pc = "done" /\ excMsg = NoAnswer) =>
        /\ failed \cap {"router", "farewell"} # {} => stage1.action_type = "error"
        /\ failed \cap {"menu", "order"} # {} => stage2.action_type = "error"

\* an utterance classified as end gives a single record without a cart:
\* the farewell call is made inside stage one and no stage two follows
C14_SingleRecord ==
    (pc = "done" /\ intent = "end") =>
        /\ calls = <<"router", "farewell">>
        /\ stage2 = NoShown
        /\ ~response_event.cart_items.present
        /\ current_cart = cartBefore
        /\ Appended = 2

\* C14 as stated, for the runs that end on the classify step's stop event: an
\* utterance classified as end gives a single record of kind
\* end_conversation with a non-empty text, with no cart, the farewell call
\* being made inside stage one and no stage two following.
C14_EndGivesFarewell ==
    /\ C14_SingleRecord
    /\ (pc = "done" /\ intent = "end" /\ runEnd = "chat") =>
          /\ response_event.action_type = "end_conversation"
          /\ IsStr(response_event.response)
          /\ Chars(response_event.response) # <<>>

\* C14 amended: an utterance classified as end gives a single record with no
\* cart, the farewell call being made inside stage one and no stage two
\* following.  When the run ends on the classify step's stop event, the
\* record has kind end_conversation and a string as its text (possibly the
\* empty one) if the farewell handler returned a string, and kind error
\* otherwise; it is displayed, sanitized, with kind end_conversation when its
\* sanitized form is neither empty nor a fragment.
C14_EndGivesFarewellIfUsable ==
    /\ C14_SingleRecord
    /\ (pc = "done" /\ intent = "end" /\ runEnd = "chat") =>
          /\ IsStr(response_event.response)
          /\ response_event.action_type =
                IF caught THEN "error" ELSE "end_conversation"
          /\ (~caught /\ TextOk(response_event.response)) =>
                stage1 = Shown(Sanitized(response_event.response),
                               "end_conversation")

C14_Witness ==
    /\ pc = "done"
    /\ intent = "end"
    /\ calls = <<"router", "farewell">>
    /\ response_event.response = Str(<<"a">>)
    /\ stage1 = Shown(<<"a">>, "end_conversation")

\* the action kinds the specification enumerates
ActionKinds ==
    {"greeting", "history_query", "end_conversation", "irrelevant_query",
     "menu_inquiry_pending", "menu_inquiry", "order_action_pending",
     "order_action", "error"}

\* C15: the action kind of the record process_message returned, and the kinds
\* the caller records for stage one and for stage two, are among the
\* enumerated kinds.
C15_KindsEnumerated ==
    /\ pc \in {"returned", "stage2", "done"} =>
          response_event.action_type \in ActionKinds
    /\ pc \in {"stage2", "done"} => stage1.action_type \in ActionKinds
    /\ (pc = "done" /\ stage2 # NoShown) => stage2.action_type \in ActionKinds

Min(a, b) == IF a <= b THEN a ELSE b

\* C16: the snapshot given to the workflow of an utterance is the most recent
\* min(20, n) of the n messages that precede the utterance in the session
\* history, in their order, the utterance itself excluded; the role is USER
\* for "user" and ASSISTANT otherwise.
C16_SnapshotIsRecentHistory ==
    pc = "replying" =>
        LET n == Len(messages) - 1
            k == Min(20, n)
        IN  /\ messages[n + 1].role = "user"
            /\ Len(chat_history) = k
            /\ \A i \in 1..k :
                  /\ chat_history[i].content = messages[n - k + i].content
                  /\ chat_history[i].role =
                        IF messages[n - k + i].role = "user"
                        THEN "USER" ELSE "ASSISTANT"

\* a session of more than 20 messages: the snapshot starts after the oldest
C16_Witness ==
    /\ pc = "replying"
    /\ Len(messages) = 23
    /\ Len(chat_history) = 20
    /\ chat_history[1].content = <<"3">>
    /\ chat_history[20].content = <<"22">>

\* C17: the workflow's chat history stays the snapshot it was constructed
\* with, whatever calls the classify step, the detail step, the farewell
\* handler and the stage-two handlers have made; and while the workflow runs
\* the session history is the one the caller left, ending with the utterance.
C17_SnapshotNeverMutated ==
    LET own == IF pc \in {"router", "farewell", "steps", "returned"} THEN 1
               ELSE IF pc = "stage2" \/ stage2 = NoShown THEN 2 ELSE 3
    IN  pc \in {"router", "farewell", "steps", "returned", "stage2", "done"} =>
            /\ chat_history =
                  FormatHistory(SubSeq(messages, 1, Len(messages) - own))
            /\ messages[Len(messages) - own + 1] = Message("user", query)

\* the workflow run has started the order handler's call and the caller has
\* started it again, after two messages of an earlier utterance
C17_Witness ==
    /\ pc = "stage2"
    /\ calls = <<"router", "run_order", "order">>
    /\ Len(chat_history) = 2
    /\ Len(messages) = 4

\* the classifier's output parses as JSON and is not an object, or is an
\* object whose intent is missing, empty, not a string, or not one of the six
\* valid intents whatever its case
InvalidIntentOutput(out) ==
    \/ out.json = "nonobject"
    \/ /\ out.json = "object"
       /\ \/ out.intent.t # "str"
          \/ out.intent.w = ""
          \/ Lower(out.intent.w) \notin
                {"menu", "order", "greeting", "end", "irrelevant", "history"}

\* C18: when the classifier's output has no valid intent, the record of
\* stage one has kind irrelevant_query and a non-empty text.
C18_InvalidIntentIsIrrelevant ==
    (/\ pc = "returned"
     /\ runEnd \in {"chat", "raised"}
     /\ InvalidIntentOutput(router_out)) =>
        /\ response_event.action_type = "irrelevant_query"
        /\ IsStr(response_event.response)
        /\ Chars(response_event.response) # <<>>

\* the classifier's output is an object whose intent is, whatever its case,
\* greeting, history or irrelevant
DirectIntentOutput(out) ==
    /\ out.json = "object"
    /\ out.intent.t = "str"
    /\ Lower(out.intent.w) \in {"greeting", "history", "irrelevant"}

\* what C19 says of the stage-one record of such an output, unusable
\* telling whether the supplied response is one to replace
C19_Record(unusable) ==
    (pc = "returned" /\ runEnd = "chat" /\ DirectIntentOutput(router_out)) =>
        response_event.response =
           IF unusable
           THEN CASE Lower(router_out.intent.w) = "greeting" ->
                        Str(GreetingFallbackText)
                  [] Lower(router_out.intent.w) = "history" ->
                        Str(HistoryFallbackText)
                  [] OTHER -> Str(IrrelevantFallbackText)
           ELSE router_out.response

\* empty, whitespace-only, not a string, or one of the six fragments
UnusableAsStated(r) ==
    \/ ~IsStr(r)
    \/ Strip(Chars(r)) = <<>>
    \/ Chars(r) \in {<<"{">>, <<"}">>, <<"[", "]">>, <<"[">>, <<"]">>, <<"{", "}">>}

\* empty, whitespace-only, not a string, or, once stripped, one of the
\* eleven strings of the classifier's list
UnusableInClassifier(r) ==
    \/ ~IsStr(r)
    \/ Strip(Chars(r)) = <<>>
    \/ Strip(Chars(r)) \in
          {<<"{">>, <<"}">>, <<"[", "]">>, <<"[">>, <<"]">>, <<"{", "}">>,
           <<":">>, <<"\"", "\"">>, <<"'", "'">>, <<",">>, <<".">>}

\* C19 as stated: for a classified intent of greeting, history or irrelevant
\* the text of the stage-one record is the intent's canned fallback when the
\* supplied response is empty, whitespace-only, not a string or one of the
\* six degenerate fragments, and the supplied response otherwise.
C19_FallbackOnSixFragments ==
    C19_Record(UnusableAsStated(router_out.response))

\* C19 amended: ... when the supplied response is empty, whitespace-only, not
\* a string, or equal after stripping to one of { } [] [ ] {} : "" '' , . and
\* the supplied response otherwise.
C19_FallbackOnClassifierFragments ==
    C19_Record(UnusableInClassifier(router_out.response))

C19_Witness ==
    /\ pc = "returned"
    /\ runEnd = "chat"
    /\ router_out.intent = IntentField("str", "GREETING")
    /\ router_out.response = Str(<<"{">>)
    /\ response_event.response = Str(GreetingFallbackText)
    /\ response_event.action_type = "greeting"

(***************************************************************************)
(* C20: the sanitizer is idempotent: for every input string x, the empty   *)
(* string, strings with a character outside the allow-list between spaces  *)
(* and strings with ** markers included, sanitizing the sanitized text     *)
(* gives the sanitized text again.                                         *)
(***************************************************************************)
C20_SanitizerIdempotent ==
    clean_n = 2 /\ IsStr(clean_in) => clean_out = CleanStr(Chars(clean_in))

(***************************************************************************)
(* C21: what the sanitizer returns never contains a character outside its  *)
(* allow-list, for every input; an input that is not a string is coerced   *)
(* to its string form and then sanitized like any other string.            *)
(***************************************************************************)
C21_OutputAllowed ==
    clean_n >= 1 => \A i \in 1..Len(clean_out) : IsAllowed(clean_out[i])

(***************************************************************************)
(* C22: when the classifier's model output is not parseable JSON, the      *)
(* intent is chosen from the lower-cased raw output, first match wins:     *)
(* "menu" gives menu; else "order", "cart" or "checkout" gives order; else *)
(* a greeting token gives greeting with a canned response; else a farewell *)
(* token gives end; else irrelevant with a canned apology.  The fallback   *)
(* never raises and always yields one of the six valid intents.            *)
(***************************************************************************)
RawHas(kws) == \E w \in SeqToSet(router_out.raw) : Lower(w) \in kws

C22_Expected ==
    IF RawHas({"menu"}) THEN "menu"
    ELSE IF RawHas({"order", "cart", "checkout"}) THEN "order"
    ELSE IF RawHas({"hello", "hi ", " how are"}) THEN "greeting"
    ELSE IF RawHas({"bye", "thank you", "thanks"}) THEN "end"
    ELSE "irrelevant"

C22_KeywordPriority ==
    router_out.json = "invalid" =>
        /\ intent = C22_Expected
        /\ intent \in valid_intents
        /\ ~(runEnd = "raised" /\ calls = <<"router">>)
        /\ pc = "steps" /\ intent = "greeting" =>
              stop = ChatResponseStopEvent(Str(KeywordGreetingText), "greeting", NoCart)
        /\ pc = "steps" /\ intent = "irrelevant" =>
              stop = ChatResponseStopEvent(Str(KeywordIrrelevantText),
                                           "irrelevant_query", NoCart)

C22_Witness ==
    /\ router_out.json = "invalid"
    /\ router_out.raw = <<"cart", "Menu">>
    /\ intent = "menu"
    /\ finalizeQ # <<>>
    /\ Head(finalizeQ).action_type = "menu_inquiry_pending"

(***************************************************************************)
(* C23: for a menu or order intent the stage-one text is one of three      *)
(* fixed acknowledgments, chosen only from the intent and the utterance:   *)
(* the menu acknowledgment for menu; for order the modification            *)
(* acknowledgment exactly when the lower-cased utterance contains change,  *)
(* modify, add, remove or update, else the plain order acknowledgment.     *)
(* The response field of the classifier's output never influences it.      *)
(***************************************************************************)
C23_Classified(w) ==
    /\ pc = "returned"
    /\ router_out.json = "object"
    /\ router_out.intent = IntentField("str", w)
    /\ runEnd \in {"chat", "raised"}
    /\ calls = <<"router">>       \* no handler call started inside the run

C23_Modifies ==
    \E i \in 1..Len(query) :
        Lower(query[i]) \in {"change", "modify", "add", "remove", "update"}

C23_AckFromIntentAndUtterance ==
    /\ C23_Classified("Menu") => response_event.response = Str(MenuAckText)
    /\ C23_Classified("ORDER") =>
          response_event.response =
              Str(IF C23_Modifies THEN OrderModAckText ELSE OrderAckText)

(***************************************************************************)
(* C24: the cart extractor tries the brace-delimited candidates in order   *)
(* of appearance and accepts the first one that parses to an object with a *)
(* "response" key, never consulting later ones: the returned text is that  *)
(* object's response and the returned cart is its "cart" when that is an   *)
(* array, otherwise empty.  If no candidate parses or none has a           *)
(* "response" key, it returns the original text unchanged and an empty     *)
(* cart.  It never raises: the extractor's result is defined on every      *)
(* input, a reply that is not a str included.                              *)
(***************************************************************************)
C24_Candidates ==
    IF IsStr(extract_in) THEN SelectSeq(extract_in.objs, IsCandidate) ELSE <<>>

C24_Accepts(o) == o.parses /\ o.hasResponse

C24_FirstAccepted ==
    LET c == C24_Candidates IN
    extract_out.done =>
        /\ \A k \in 1..Len(c) :
              C24_Accepts(c[k]) /\ (\A j \in 1..(k - 1) : ~C24_Accepts(c[j])) =>
                  /\ extract_out.result.content = c[k].response
                  /\ extract_out.result.cart_items =
                        IF c[k].cartKind = "list" THEN c[k].cart ELSE <<>>
        /\ (\A k \in 1..Len(c) : ~C24_Accepts(c[k])) =>
              /\ extract_out.result.content = extract_in
              /\ extract_out.result.cart_items = <<>>

C24_Witness ==
    /\ extract_out.done
    /\ Len(C24_Candidates) = 3
    /\ ~C24_Accepts(C24_Candidates[1])
    /\ C24_Accepts(C24_Candidates[2])
    /\ C24_Accepts(C24_Candidates[3])
    /\ C24_Candidates[2].response # C24_Candidates[3].response
    /\ extract_out.result.content = C24_Candidates[2].response

(***************************************************************************)
(* C25: within one utterance the classification model call is made exactly *)
(* once and before any handler model call: no menu, order or farewell call *)
(* starts before the classification call has returned, and the             *)
(* classification call is never repeated.                                  *)
(***************************************************************************)
C25_ClassifiedOnceAndFirst ==
    /\ pc # "idle" => calls # <<>>
    /\ pc = "router" => calls = <<"router">>
    /\ calls # <<>> =>
          /\ calls[1] = "router"
          /\ \A i \in 2..Len(calls) : calls[i] # "router"

C25_Witness ==
    /\ Len(calls) = 3
    /\ calls[1] = "router"
    /\ calls[3] = "menu"
    /\ turn = 2

(***************************************************************************)
(* C26: a pending event (menu_inquiry_pending or order_action_pending)     *)
(* that reaches the detail step with a missing or empty original query is  *)
(* converted to an event of action kind error with a specific message and  *)
(* no cart, and no handler model call is made for it.                      *)
(***************************************************************************)
C26_PendingWithoutQuery ==
    /\ pc = "steps"
    /\ detailBusy = "none"
    /\ detailQ # <<>>
    /\ IsPending(Head(detailQ).action_type)
    /\ Head(detailQ).original_query \in {NoneVal, Str(<<>>)}

C26_MissingQueryIsError ==
    [][/\ C26_PendingWithoutQuery
       /\ <<detailBusy, finalizeQ>>' # <<detailBusy, finalizeQ>>
       =>
          /\ calls' = calls
          /\ detailBusy' = "none"
          /\ finalizeQ' # <<>>
          /\ finalizeQ'[Len(finalizeQ')] =
                ResponseEvent(
                    Str(IF Head(detailQ).action_type = "menu_inquiry_pending"
                        THEN MissingMenuQueryText ELSE MissingOrderQueryText),
                    "error", NoneVal, NoCart)
          /\ detailQ'[Len(detailQ')] = finalizeQ'[Len(finalizeQ')]]_vars

C26_Witness ==
    /\ pc = "steps"
    /\ calls = <<"router">>
    /\ finalizeQ # <<>>
    /\ finalizeQ[1] =
          ResponseEvent(Str(MissingOrderQueryText), "error", NoneVal, NoCart)

(***************************************************************************)
(* C27: every workflow run terminates with exactly one stop record         *)
(* delivered to the caller, for every classified intent, although the      *)
(* detail step consumes and emits the event type that the finalize step    *)
(* consumes: no run loops forever re-emitting response events.             *)
(***************************************************************************)
C27_RunTerminatesWithOneRecord ==
    /\ (pc \in {"router", "farewell", "steps"}) ~> (pc = "returned")
    /\ [][response_event' # response_event /\ response_event' # NoStop =>
            /\ pc \in {"router", "farewell", "steps"}
            /\ pc' = "returned"
            /\ response_event = NoStop]_vars

\* the stop event exists while events the detail step has re-emitted wait
C27_Witness ==
    /\ pc = "steps"
    /\ stop # NoStop
    /\ stop.action_type = "menu_inquiry_pending"
    /\ detailQ # <<>>
    /\ Head(detailQ).action_type = "menu_inquiry"
    /\ finalizeQ # <<>>

(***************************************************************************)
(* C28: if stage two of an order utterance ends with action kind error     *)
(* (an empty, degenerate or non-string response text, or an exception      *)
(* raised after the order handler returned), the session cart equals its   *)
(* value before the utterance: a turn reported as an error never changes   *)
(* the cart.                                                               *)
(***************************************************************************)
C28_ErrorTurnKeepsCart ==
    /\ pc = "done"
    /\ stage1.action_type = "order_action_pending"
    /\ stage2.action_type = "error"
    => current_cart = cartBefore

(***************************************************************************)
(* C29: if the order handler's model call raises, the session cart after   *)
(* the turn equals the session cart before the turn: a failed model call   *)
(* degrades the reply only and never empties or replaces an existing       *)
(* non-empty cart.                                                         *)
(***************************************************************************)
C29_FailedOrderCallKeepsCart ==
    /\ pc = "done"
    /\ stage1.action_type = "order_action_pending"
    /\ "order" \in failed
    => current_cart = cartBefore

(***************************************************************************)
(* C30: an utterance whose classified intent is not order (greeting,       *)
(* history, end, irrelevant, menu, or a classification failure) leaves the *)
(* session cart unchanged through both stages; only a record produced by   *)
(* the order handler can carry a cart.                                     *)
(***************************************************************************)
C30_NotOrderKeepsCart ==
    /\ pc \in {"returned", "stage2", "done"} /\ intent # "order" =>
          /\ current_cart = cartBefore
          /\ ~response_event.cart_items.present
    /\ pc = "done" /\ intent # "order" => ~stage2_cart_items.present

C30_Witness ==
    /\ pc = "done"
    /\ intent = "menu"
    /\ stage2.action_type = "menu_inquiry"
    /\ cartBefore = <<"burger">>
    /\ current_cart = <<"burger">>

(***************************************************************************)
(* C31: the session history is append-only and grows per utterance in a    *)
(* fixed order: first the user turn, then the stage-one assistant turn,    *)
(* then, only for a pending stage one, the stage-two assistant turn.       *)
(* After any sequence of utterances every user turn is followed by one or  *)
(* two assistant turns before the next user turn, and earlier turns are    *)
(* never modified or removed.                                              *)
(***************************************************************************)
RECURSIVE C31_Grouped(_)
C31_Grouped(h) ==
    IF h = <<>> THEN TRUE
    ELSE /\ Len(h) >= 2
         /\ h[1].role = "user"
         /\ h[2].role = "assistant"
         /\ IF Len(h) >= 3 /\ h[3].role = "assistant"
            THEN C31_Grouped(SubSeq(h, 4, Len(h)))
            ELSE C31_Grouped(SubSeq(h, 3, Len(h)))

C31_Appends ==
    /\ Len(messages') = Len(messages) + 1
    /\ SubSeq(messages', 1, Len(messages)) = messages
    /\ LET n == Len(messages)
           m == messages'[n + 1]
       IN  \/ /\ m.role = "user"
              /\ pc = "idle"
              /\ C31_Grouped(messages)
           \/ /\ m.role = "assistant"
              /\ pc = "returned"
              /\ messages[n].role = "user"
           \/ /\ m.role = "assistant"
              /\ pc = "stage2"
              /\ IsPending(stage1.action_type)
              /\ messages[n].role = "assistant"
              /\ messages[n - 1].role = "user"

C31_HistoryAppendOnly ==
    /\ [][messages' # messages => C31_Appends]_vars
    /\ [](pc \in {"idle", "done"} => C31_Grouped(messages))

C31_Witness ==
    /\ pc = "done"
    /\ Len(messages) = 5
    /\ messages[3].role = "assistant"
    /\ messages[4].role = "user"
    /\ messages[5].role = "assistant"

(***************************************************************************)
(* C32: the stage-two handler of an utterance works on the same history    *)
(* snapshot as stage one: the messages sent to the model are the           *)
(* construction-time snapshot, then the current utterance exactly once as  *)
(* a USER turn, then the handler's system instruction; the stage-one       *)
(* acknowledgment appended to the session history in between is never      *)
(* part of the stage-two model context.                                    *)
(***************************************************************************)
\* the session history when the workflow was constructed: the history of
\* stage two without the stage-one acknowledgment and the utterance
C32_Snapshot == FormatHistory(SubSeq(messages, 1, Len(messages) - 2))

C32_StageTwoContext ==
    pc = "stage2" =>
        LET n == Len(C32_Snapshot) IN
        /\ messages[Len(messages)] = Message("assistant", stage1.content)
        /\ messages[Len(messages) - 1] = Message("user", query)
        /\ Len(handler_messages) = n + 2
        /\ SubSeq(handler_messages, 1, n) = C32_Snapshot
        /\ handler_messages[n + 1] = Message("USER", query)
        /\ handler_messages[n + 2].role = "SYSTEM"

\* the second utterance, after the run has made its own handler call
C32_Witness ==
    /\ pc = "stage2"
    /\ turn = 2
    /\ calls = <<"router", "run_order", "order">>
    /\ Len(handler_messages) = 5

====
